---- MODULE Spec2Model ----
(***************************************************************************)
(* Log Section Analyzer: the geometric analysis engine (analyzeLogSection  *)
(* in its variants) and the batch orchestrator of the LogAnalyzer          *)
(* component (handleRunAnalysis / processImageBatch / imageRouter.analyze).*)
(***************************************************************************)
EXTENDS Integers, Sequences, FiniteSets, TLC

VARIABLES
    \* ---- engine: one call of analyzeLogSection ----
    engVariant,     \* which copy of analyzeLogSection runs
    engImage,       \* the decoded raster handed to it
    engHeight,      \* the height argument (realWorldHeightMm / heightMm)
    engOcr,         \* what the engine's own OCR pass detects (image.ts only)
    engPc,          \* "call" before the call, "done" after it
    engOut,         \* outcome of the call (locals of interest and the return value)
    engLive,        \* OpenCV objects allocated by the call and not deleted
    \* ---- orchestrator: LogAnalyzer component state and one onchange run ----
    files,              \* allImages: the uploaded files, in input order
    isProcessing,
    results,
    processedImageUrls,
    processedIndices,
    processingProgress,
    imageUrls,
    allResults,         \* local of the onchange handler
    groupStart,         \* loop variable i of the onchange handler
    req,                \* per file: state of its processImageBatch promise
    reqResult,          \* per file: value a fulfilled promise carries
    alerts,             \* messages shown by alert(), in order
    completed,          \* files in the order their promises settled
    pc,                 \* position of the onchange handler
    \* ---- height extraction: one call of extractHeightFromImage ----
    ocrVariant,     \* which copy of extractHeightFromImage runs
    ocrText,        \* result.data.text of the recognizer, a sequence of characters
    ocrPc,          \* "call" before the call, "done" after it
    ocrOut,         \* outcome of the call
    ocrWorker,      \* the Tesseract worker of the call: "none", "live", "terminated"
    \* ---- binarizer: threshold and inversion of one grayscale raster ----
    binImage,       \* the page and its shape
    binInk,         \* "dark" shape on a light page, or "light" shape on a dark one
    binPc,          \* "call" before, "done" after
    binOut,         \* the binary raster after cv.bitwise_not
    \* ---- LogAnalyzer component across several uses of "Run Analysis" ----
    runs,           \* per onchange invocation: its position and its locals
    \* ---- readiness barrier of the router module ----
    opencvReady,    \* the module-level flag
    waiters         \* per call of waitForOpenCV: its promise, timer and caller

engVars == <<engVariant, engImage, engHeight, engOcr, engPc, engOut, engLive>>
runVars == <<files, isProcessing, results, processedImageUrls, processedIndices,
             processingProgress, imageUrls, allResults, groupStart, req,
             reqResult, alerts, completed, pc>>
ocrVars == <<ocrVariant, ocrText, ocrPc, ocrOut, ocrWorker>>
binVars == <<binImage, binInk, binPc, binOut>>
rerunVars == <<runs>>
readyVars == <<opencvReady, waiters>>
vars == <<engVars, runVars, ocrVars, binVars, rerunVars, readyVars>>

\* a nullable value is <<>> (null) or <<v>>
Null == <<>>

Some(v) == <<v>>

\* no call of extractHeightFromImage under way
OcrNotCalled == [kind |-> "none", value |-> Null, recognizerFailed |-> FALSE]

OcrParked ==
    /\ ocrVariant = "none" /\ ocrText = <<>> /\ ocrPc = "parked"
    /\ ocrOut = OcrNotCalled /\ ocrWorker = "none"

\* no binarization under way
BinParked ==
    binImage = Null /\ binInk = "none" /\ binPc = "parked" /\ binOut = Null

\* no onchange handler has run yet
RerunParked == runs = <<>>

\* the router module is not loaded
ReadyParked == opencvReady = FALSE /\ waiters = <<>>

-----------------------------------------------------------------------------
(* JavaScript numbers, kept exact: a finite value is a reduced fraction    *)
(* n/d with d > 0; NaN and the two infinities are separate values.         *)
(* Rounding and the sign of zero are not represented. Common factors are   *)
(* divided out before two integers are multiplied, to keep them small.     *)

Abs(i) == IF i < 0 THEN -i ELSE i

Sign(i) == IF i < 0 THEN -1 ELSE IF i = 0 THEN 0 ELSE 1

RECURSIVE Gcd(_, _)
Gcd(a, b) == IF b = 0 THEN a ELSE Gcd(b, a % b)

NaN == [k |-> "nan", n |-> 0, d |-> 0]

Inf(s) == [k |-> "inf", n |-> s, d |-> 0]

Frac(num, den) ==
    LET g == Gcd(Abs(num), Abs(den))
        s == Sign(den)
    IN  [k |-> "fin", n |-> (s * num) \div g, d |-> (s * den) \div g]

Num(i) == [k |-> "fin", n |-> i, d |-> 1]

IsFinite(a) == a.k = "fin"

IsNaN(a) == a.k = "nan"

FNeg(a) == IF a.k = "nan" THEN NaN ELSE [a EXCEPT !.n = -a.n]

FMul(a, b) ==
    IF a.k = "nan" \/ b.k = "nan" THEN NaN
    ELSE IF a.k = "inf" \/ b.k = "inf"
         THEN IF a.n = 0 \/ b.n = 0 THEN NaN ELSE Inf(Sign(a.n) * Sign(b.n))
         ELSE LET g1 == Gcd(Abs(a.n), b.d)
                  g2 == Gcd(Abs(b.n), a.d)
              IN  Frac((a.n \div g1) * (b.n \div g2), (a.d \div g2) * (b.d \div g1))

FDiv(a, b) ==
    IF a.k = "nan" \/ b.k = "nan" THEN NaN
    ELSE IF a.k = "inf"
         THEN IF b.k = "inf" THEN NaN
              ELSE Inf(a.n * (IF b.n < 0 THEN -1 ELSE 1))
         ELSE IF b.k = "inf" THEN Num(0)
              ELSE IF b.n = 0
                   THEN IF a.n = 0 THEN NaN ELSE Inf(Sign(a.n))
                   ELSE LET g1 == Gcd(Abs(a.n), Abs(b.n))
                            g2 == Gcd(a.d, b.d)
                        IN  Frac((a.n \div g1) * (b.d \div g2),
                                 (a.d \div g2) * (b.n \div g1))

FAdd(a, b) ==
    IF a.k = "nan" \/ b.k = "nan" THEN NaN
    ELSE IF a.k = "inf"
         THEN IF b.k = "inf" /\ b.n # a.n THEN NaN ELSE a
         ELSE IF b.k = "inf" THEN b
              ELSE LET g == Gcd(a.d, b.d)
                   IN  Frac(a.n * (b.d \div g) + b.n * (a.d \div g),
                            (a.d \div g) * b.d)

FSub(a, b) == FAdd(a, FNeg(b))

\* a < b; false when either is NaN
FLt(a, b) ==
    IF a.k = "nan" \/ b.k = "nan" THEN FALSE
    ELSE IF a.k = "inf" THEN a.n < 0 /\ ~(b.k = "inf" /\ b.n < 0)
    ELSE IF b.k = "inf" THEN b.n > 0
    ELSE LET g == Gcd(a.d, b.d)
         IN  a.n * (b.d \div g) < b.n * (a.d \div g)

\* Math.max
FMax(a, b) ==
    IF a.k = "nan" \/ b.k = "nan" THEN NaN
    ELSE IF FLt(a, b) THEN b ELSE a

\* Math.pow(a, 2)
FSq(a) == FMul(a, a)

IsPositiveFinite(a) == a.k = "fin" /\ a.n > 0

-----------------------------------------------------------------------------
(* Rasters. A decoded raster is a light page of rows x cols pixels carrying *)
(* dark filled axis-aligned rectangles that do not touch one another; the   *)
(* sequence order of the shapes is the order in which cv.findContours       *)
(* enumerates their outlines. Pages of every height carry no shape or one   *)
(* shape anywhere; the tallest page also carries two shapes of one width,   *)
(* one above the other at the left edge (a section and a stray blob, in     *)
(* either order).                                                           *)

MaxRows == 5

MaxCols == 3

RectsIn(rows, cols) ==
    { [x |-> x, y |-> y, w |-> w, h |-> h] :
        x \in 0..(cols - 1), y \in 0..(rows - 1), w \in 1..cols, h \in 1..rows }

FitsIn(r, rows, cols) == r.x + r.w <= cols /\ r.y + r.h <= rows

\* 8-connected: two rectangles that overlap or are adjacent form one component
Touch(a, b) ==
    /\ a.x <= b.x + b.w /\ b.x <= a.x + a.w
    /\ a.y <= b.y + b.h /\ b.y <= a.y + a.h

RastersOf(rows, cols) ==
    LET R == { r \in RectsIn(rows, cols) : FitsIn(r, rows, cols) }
    IN  { [rows |-> rows, cols |-> cols, shapes |-> <<>>] }
        \cup { [rows |-> rows, cols |-> cols, shapes |-> <<r>>] : r \in R }

TwoShapeRasters(rows, cols) ==
    LET R == { r \in RectsIn(rows, cols) : FitsIn(r, rows, cols) /\ r.x = 0 }
    IN  { [rows |-> rows, cols |-> cols, shapes |-> <<q[1], q[2]>>] :
            q \in { t \in R \X R : t[1].w = t[2].w /\ ~Touch(t[1], t[2]) } }

Rasters ==
    UNION { RastersOf(rows, MaxCols) : rows \in 1..MaxRows }
    \cup TwoShapeRasters(MaxRows, MaxCols)

Pixels(img) == (0..(img.rows - 1)) \X (0..(img.cols - 1))    \* <<y, x>>

InRect(p, r) == r.y <= p[1] /\ p[1] < r.y + r.h /\ r.x <= p[2] /\ p[2] < r.x + r.w

\* cv.cvtColor(src, gray, COLOR_RGBA2GRAY): dark ink is 0, the page is 255
Gray(img) ==
    [p \in Pixels(img) |->
        IF \E i \in 1..Len(img.shapes) : InRect(p, img.shapes[i]) THEN 0 ELSE 255]

\* cv.threshold(gray, binary, 0, 255, THRESH_BINARY + THRESH_OTSU): for a raster
\* of the two levels 0 and 255 (or of one of them) Otsu's scan keeps threshold 0
OtsuThreshold(gray) == 0

Threshold(gray) ==
    [p \in DOMAIN gray |-> IF gray[p] > OtsuThreshold(gray) THEN 255 ELSE 0]

\* cv.bitwise_not(binary, binary)
BitwiseNot(bin) == [p \in DOMAIN bin |-> 255 - bin[p]]

Binarize(img) == BitwiseNot(Threshold(Gray(img)))

\* outline of one rectangular component, CHAIN_APPROX_SIMPLE: its corner pixels
\* (a one-pixel-wide component repeats corners, which changes neither its
\* area nor its bounding rectangle)
ContourOf(r) ==
    << [x |-> r.x, y |-> r.y],
       [x |-> r.x, y |-> r.y + r.h - 1],
       [x |-> r.x + r.w - 1, y |-> r.y + r.h - 1],
       [x |-> r.x + r.w - 1, y |-> r.y] >>

\* cv.findContours(binary, contours, hierarchy, RETR_EXTERNAL, CHAIN_APPROX_SIMPLE)
findContours(img) == [i \in 1..Len(img.shapes) |-> ContourOf(img.shapes[i])]

RECURSIVE Shoelace(_, _)
Shoelace(c, i) ==
    IF i > Len(c) THEN 0
    ELSE LET j == IF i = Len(c) THEN 1 ELSE i + 1
         IN  (c[i].x * c[j].y - c[j].x * c[i].y) + Shoelace(c, i + 1)

\* cv.contourArea: area of the polygon through the outline's points
contourArea(c) == Frac(Abs(Shoelace(c, 1)), 2)

SetMin(S) == CHOOSE m \in S : \A s \in S : m <= s

SetMax(S) == CHOOSE m \in S : \A s \in S : m >= s

\* cv.boundingRect
boundingRect(c) ==
    LET xs == { c[i].x : i \in 1..Len(c) }
        ys == { c[i].y : i \in 1..Len(c) }
    IN  [x |-> SetMin(xs), y |-> SetMin(ys),
         width |-> SetMax(xs) - SetMin(xs) + 1,
         height |-> SetMax(ys) - SetMin(ys) + 1]

\* a scan that lets a later contour of equal area replace the one found first
RECURSIVE LargestFrom_lastWins(_, _, _, _)
LargestFrom_lastWins(contours, i, maxArea, largestContourIndex) ==
    IF i >= Len(contours)
    THEN [maxArea |-> maxArea, largestContourIndex |-> largestContourIndex]
    ELSE LET area == contourArea(contours[i + 1])
         IN  IF ~FLt(area, maxArea)
             THEN LargestFrom_lastWins(contours, i + 1, area, i)
             ELSE LargestFrom_lastWins(contours, i + 1, maxArea, largestContourIndex)

\* the "Find largest contour" loop, from index i (0-based) on
RECURSIVE LargestFrom(_, _, _, _)
LargestFrom(contours, i, maxArea, largestContourIndex) ==
    IF i >= Len(contours)
    THEN [maxArea |-> maxArea, largestContourIndex |-> largestContourIndex]
    ELSE LET area == contourArea(contours[i + 1])
         IN  IF FLt(maxArea, area)
             THEN LargestFrom(contours, i + 1, area, i)
             ELSE LargestFrom(contours, i + 1, maxArea, largestContourIndex)

FindLargest(contours) == LargestFrom(contours, 0, Num(0), 0)

\* (mutation) the fill leaves the outline of the contour out
drawContours_interiorOnly(img, contours, idx) ==
    LET b == boundingRect(contours[idx + 1])
        r == [x |-> b.x + 1, y |-> b.y + 1, w |-> b.width - 2, h |-> b.height - 2]
    IN  [p \in Pixels(img) |-> IF InRect(p, r) THEN 255 ELSE 0]

\* cv.Mat.zeros(rows, cols, CV_8UC1) then cv.drawContours(mask, contours, idx,
\* Scalar(255), -1): the polygon of contour idx is filled, outline included
drawContours(img, contours, idx) ==
    LET b == boundingRect(contours[idx + 1])
        r == [x |-> b.x, y |-> b.y, w |-> b.width, h |-> b.height]
    IN  [p \in Pixels(img) |-> IF InRect(p, r) THEN 255 ELSE 0]

ZeroMask(img) == [p \in Pixels(img) |-> 0]

\* row-major walk over the pixels, as the nested y/x loops do
PixelAt(img, k) == << k \div img.cols, k % img.cols >>

RECURSIVE WeightedSum(_, _, _, _)
WeightedSum(img, mask, k, kind) ==
    IF k >= img.rows * img.cols THEN 0
    ELSE LET p == PixelAt(img, k)
             wgt == CASE kind = "m00" -> 1
                      [] kind = "m10" -> p[2]
                      [] kind = "m01" -> p[1]
         IN  wgt * mask[p] + WeightedSum(img, mask, k + 1, kind)

\* cv.moments(mask): binaryImage defaults to false, so every pixel weighs
\* its stored intensity
moments(img, mask) ==
    [m00 |-> WeightedSum(img, mask, 0, "m00"),
     m10 |-> WeightedSum(img, mask, 0, "m10"),
     m01 |-> WeightedSum(img, mask, 0, "m01")]

OnCount(mask) == Cardinality({ p \in DOMAIN mask : mask[p] = 255 })

\* (mutation) the loop with the centroid left out of the squared distance
RECURSIVE IxxLoop_aboutOrigin(_, _, _, _, _, _)
IxxLoop_aboutOrigin(img, mask, k, scale, centroidYMm, pixelAreaMm2) ==
    IF k >= img.rows * img.cols THEN Num(0)
    ELSE LET p == PixelAt(img, k)
             rest == IxxLoop_aboutOrigin(img, mask, k + 1, scale, centroidYMm,
                                         pixelAreaMm2)
         IN  IF mask[p] = 255
             THEN FAdd(FMul(FSq(FMul(Num(p[1]), scale)), pixelAreaMm2), rest)
             ELSE rest

\* the "Calculate Ixx" double loop
RECURSIVE IxxLoop(_, _, _, _, _, _)
IxxLoop(img, mask, k, scale, centroidYMm, pixelAreaMm2) ==
    IF k >= img.rows * img.cols THEN Num(0)
    ELSE LET p == PixelAt(img, k)
             rest == IxxLoop(img, mask, k + 1, scale, centroidYMm, pixelAreaMm2)
         IN  IF mask[p] = 255
             THEN LET yMm == FMul(Num(p[1]), scale)
                  IN  FAdd(FMul(FSq(FSub(yMm, centroidYMm)), pixelAreaMm2), rest)
             ELSE rest

-----------------------------------------------------------------------------
(* analyzeLogSection. The outcome of a call is a record: kind "ok" with    *)
(* the returned LogAnalysisResult, or kind "error" with what was thrown;   *)
(* the locals the properties speak about are kept beside it.               *)

Variants == {"image_ts", "part_001", "part_002", "part_003"}

NoLocals ==
    [heightToUse |-> Null, divisorPx |-> Null, scale |-> Null, nContours |-> Null,
     maxArea |-> Null, largestContourIndex |-> Null, rect |-> Null, m00 |-> Null,
     onCount |-> Null, centroidX |-> Null, centroidY |-> Null, cMm |-> Null]

NotCalled ==
    [kind |-> "none", error |-> Null, errorFile |-> Null,
     result |-> Null, locals |-> NoLocals]

Thrown(error, filename, locals) ==
    [kind |-> "error", error |-> Some(error), errorFile |-> filename,
     result |-> Null, locals |-> locals]

Returned(result, locals) ==
    [kind |-> "ok", error |-> Null, errorFile |-> Null,
     result |-> result, locals |-> locals]

\* "Calculate moments and properties" and "Calculate Ixx"
MomentsAndIxx(img, mask, scale) ==
    LET pixelAreaMm2 == FMul(scale, scale)
        m            == moments(img, mask)
        areaMm2      == FMul(Num(m.m00), pixelAreaMm2)
        centroidX    == FDiv(Num(m.m10), Num(m.m00))
        centroidY    == FDiv(Num(m.m01), Num(m.m00))
        centroidXMm  == FMul(centroidX, scale)
        centroidYMm  == FMul(centroidY, scale)
    IN  [m00 |-> m.m00, areaMm2 |-> areaMm2,
         centroidX |-> centroidX, centroidY |-> centroidY,
         centroidXMm |-> centroidXMm, centroidYMm |-> centroidYMm,
         IxxMm4 |-> IxxLoop(img, mask, 0, scale, centroidYMm, pixelAreaMm2)]

\* "Calculate section modulus": cMm and IxxMm4 / cMm
ExtremeFiber(maxY, minY, centroidYMm) ==
    FMax(FSub(maxY, centroidYMm), FSub(centroidYMm, minY))

\* JavaScript a || b for a number-or-null a
OrElse(a, b) == IF a = Null \/ a[1] = 0 THEN b ELSE a[1]

\* the annotated picture returned as processed_image_data
Annotate(filename) == <<"annotated", filename>>

\* The copies that scale by the full image height and have no contour guard
\* (routers/image.ts with its own OCR, and the browser-side copy without).
\* With no contour at all, drawContours is handed index 0 of an empty vector:
\* emptyDraw says whether that call returns silently or throws.
AnalyzeUnguarded(img, heightToUse, filename, detectedHeight, emptyDraw) ==
    LET contours == findContours(img)
        heightPx == img.rows
        scale    == FDiv(Num(heightToUse), Num(heightPx))
        sel      == FindLargest(contours)
        idx      == sel.largestContourIndex
        exists   == idx < Len(contours)
        mask     == IF exists THEN drawContours(img, contours, idx) ELSE ZeroMask(img)
        mo       == MomentsAndIxx(img, mask, scale)
        maxY     == FMul(Num(img.rows), scale)
        minY     == Num(0)
        cMm      == ExtremeFiber(maxY, minY, mo.centroidYMm)
        locals   == [heightToUse |-> heightToUse, divisorPx |-> heightPx,
                     scale |-> scale, nContours |-> Len(contours),
                     maxArea |-> sel.maxArea, largestContourIndex |-> idx,
                     rect |-> IF exists THEN boundingRect(contours[idx + 1]) ELSE Null,
                     m00 |-> mo.m00, onCount |-> OnCount(mask),
                     centroidX |-> mo.centroidX, centroidY |-> mo.centroidY,
                     cMm |-> cMm]
    IN  IF ~exists /\ emptyDraw = "throws"
        THEN Thrown("CvException", Null,
                    [NoLocals EXCEPT !.heightToUse = heightToUse, !.divisorPx = heightPx,
                                     !.scale = scale, !.nContours = 0,
                                     !.maxArea = sel.maxArea,
                                     !.largestContourIndex = idx])
        ELSE Returned([filename |-> filename,
                       area_mm2 |-> mo.areaMm2,
                       centroid_x_mm |-> mo.centroidXMm,
                       centroid_y_mm |-> mo.centroidYMm,
                       Ixx_mm4 |-> mo.IxxMm4,
                       section_modulus_mm3 |-> FDiv(mo.IxxMm4, cMm),
                       detected_height_mm |-> detectedHeight,
                       processed_image_data |-> Null],
                      locals)

\* routers/image.ts: OCR first, "detectedHeight || realWorldHeightMm"
analyzeLogSection_image_ts(img, realWorldHeightMm, filename, detectedHeight, emptyDraw) ==
    AnalyzeUnguarded(img, OrElse(detectedHeight, realWorldHeightMm), filename,
                     detectedHeight, emptyDraw)

\* the browser-side copy: the supplied height, no OCR
analyzeLogSection_part_003(img, realWorldHeightMm, filename, emptyDraw) ==
    LET out == AnalyzeUnguarded(img, realWorldHeightMm, filename, Null, emptyDraw)
    IN  out

\* The copies with the "No valid contour" guard, scaled by the bounding
\* rectangle of the selected contour; the error thrown names the file.
\* reportedHeight is what the copy returns as detected_height_mm.
AnalyzeGuarded(img, heightMm, filename, reportedHeight) ==
    LET contours == findContours(img)
        sel      == FindLargest(contours)
        idx      == sel.largestContourIndex
    IN  IF sel.maxArea = Num(0)
        THEN Thrown("NoRegionFound", Some(filename),
                    [NoLocals EXCEPT !.heightToUse = heightMm,
                                     !.nContours = Len(contours),
                                     !.maxArea = sel.maxArea,
                                     !.largestContourIndex = idx])
        ELSE LET mask          == drawContours(img, contours, idx)
                 rect          == boundingRect(contours[idx + 1])
                 shapeHeightPx == rect.height
                 scale         == FDiv(Num(heightMm), Num(shapeHeightPx))
                 mo            == MomentsAndIxx(img, mask, scale)
                 maxY          == FMul(Num(rect.y + rect.height), scale)
                 minY          == FMul(Num(rect.y), scale)
                 cMm           == ExtremeFiber(maxY, minY, mo.centroidYMm)
             IN  Returned([filename |-> filename,
                           area_mm2 |-> mo.areaMm2,
                           centroid_x_mm |-> mo.centroidXMm,
                           centroid_y_mm |-> mo.centroidYMm,
                           Ixx_mm4 |-> mo.IxxMm4,
                           section_modulus_mm3 |-> FDiv(mo.IxxMm4, cMm),
                           detected_height_mm |-> reportedHeight,
                           processed_image_data |-> Annotate(filename)],
                          [heightToUse |-> heightMm, divisorPx |-> shapeHeightPx,
                           scale |-> scale, nContours |-> Len(contours),
                           maxArea |-> sel.maxArea, largestContourIndex |-> idx,
                           rect |-> rect, m00 |-> mo.m00, onCount |-> OnCount(mask),
                           centroidX |-> mo.centroidX, centroidY |-> mo.centroidY,
                           cMm |-> cMm])

\* the router that is handed the height read by extractHeightWithOpenAI and
\* returns it as detected_height_mm
analyzeLogSection_part_001(img, heightMm, filename) ==
    AnalyzeGuarded(img, heightMm, filename, Some(heightMm))

DefaultHeightMm == 300

\* the router with its own OCR and "detectedHeight || 300": realWorldHeightMm
\* is not read
analyzeLogSection_part_002(img, realWorldHeightMm, filename, detectedHeight) ==
    AnalyzeGuarded(img, OrElse(detectedHeight, DefaultHeightMm), filename,
                   detectedHeight)

analyzeLogSection(variant, img, heightMm, filename, detectedHeight, emptyDraw) ==
    CASE variant = "image_ts" ->
            analyzeLogSection_image_ts(img, heightMm, filename, detectedHeight, emptyDraw)
      [] variant = "part_003" ->
            analyzeLogSection_part_003(img, heightMm, filename, emptyDraw)
      [] variant = "part_001" ->
            analyzeLogSection_part_001(img, heightMm, filename)
      [] variant = "part_002" ->
            analyzeLogSection_part_002(img, heightMm, filename, detectedHeight)

-----------------------------------------------------------------------------
(* The engine on its own: one call of analyzeLogSection on a drawn input.  *)

\* heights a caller can hand over: z.number() admits any number
Heights == {-2, 0, 3, 6}

\* extractHeightWithOpenAI lets through only 0 < height <= 1000
AcceptedByOpenAI(h) == h > 0 /\ h <= 1000

\* what the OCR pass inside routers/image.ts may return: null or parseInt of
\* the matched digits, unchecked
ServerOcrValues == {Null, Some(0), Some(5)}

\* the copies that run their own OCR pass
HasOwnOcr(variant) == variant \in {"image_ts", "part_002"}

\* the OCR pass of the router with the default height returns only
\* 0 < height < 1000
CheckedOcr(variant) == variant = "part_002"

\* the pages handed to the router with the default height: with 300 mm on a
\* shape of a few pixels the fourth powers of the scale are large, and the
\* exact fractions stay within the integers only on the small pages
DefaultHeightPages == { r \in Rasters : r.rows <= 3 }

FileName == "log.png"

\* the OpenCV objects of a call, in the order in which they are created:
\* cv.matFromImageData, three times new cv.Mat / cv.MatVector around
\* cvtColor, threshold and findContours, cv.Mat.zeros, new cv.Mat
Buffers == <<"src", "gray", "binary", "contours", "hierarchy", "mask", "maskedImage">>

CreatedBefore(n) == { Buffers[i] : i \in 1..n }

\* "Clean up OpenCV objects": the seven delete() calls before the return
Deleted == { Buffers[i] : i \in 1..Len(Buffers) }

\* what is still allocated when the call exits: nothing has been created when
\* the canvas context is missing; the "No valid contour" throw comes after
\* hierarchy, a throw of drawContours after mask, a missing context of the
\* visualization after maskedImage; only the return path runs the deletes
LiveAtExit(out) ==
    CASE out.kind = "ok"                       -> CreatedBefore(7) \ Deleted
      [] out.error = Some("NoCanvasContext")   -> CreatedBefore(0)
      [] out.error = Some("NoRegionFound")     -> CreatedBefore(5)
      [] out.error = Some("CvException")       -> CreatedBefore(6)
      [] out.error = Some("NoVisualContext")   -> CreatedBefore(7)

EngineParked ==
    /\ engVariant = "none" /\ engImage = Null /\ engHeight = Null
    /\ engOcr = Null /\ engPc = "parked" /\ engOut = NotCalled
    /\ engLive = {}

EngineInit ==
    /\ engVariant \in Variants
    /\ engImage \in Rasters
    /\ engHeight \in Heights
    /\ engVariant = "part_001" => AcceptedByOpenAI(engHeight)
    /\ engOcr \in ServerOcrValues
    /\ engVariant = "part_002" => engImage \in DefaultHeightPages
    /\ ~HasOwnOcr(engVariant) => engOcr = Null
    /\ (CheckedOcr(engVariant) /\ engOcr # Null) => (engOcr[1] > 0 /\ engOcr[1] < 1000)
    /\ engPc = "call"
    /\ engOut = NotCalled
    /\ engLive = {}

\* one call of analyzeLogSection, entry to exit
EngineAnalyze ==
    /\ engPc = "call"
    /\ \E emptyDraw \in {"returns", "throws"} :
          \E out \in { analyzeLogSection(engVariant, engImage, engHeight, FileName,
                                         engOcr, emptyDraw) } :
              /\ engOut' = out
              /\ engLive' = LiveAtExit(out)
    /\ engPc' = "done"
    /\ UNCHANGED <<engVariant, engImage, engHeight, engOcr>>

\* the copies that draw the image on a canvas first
UsesCanvas(variant) == variant \in {"image_ts", "part_001", "part_002"}

\* a call that ends at "if (!ctx) throw" before the analysis, or, in the
\* router that checks it, at "if (!visualCtx) throw" after it
EngineNoContext ==
    /\ engPc = "call"
    /\ \E which \in {"NoCanvasContext", "NoVisualContext"} :
          /\ which = "NoCanvasContext" => UsesCanvas(engVariant)
          /\ which = "NoVisualContext" =>
                /\ engVariant = "part_001"
                /\ analyzeLogSection_part_001(engImage, engHeight, FileName).kind = "ok"
          /\ \E out \in { Thrown(which,
                                 IF engVariant = "part_001" THEN Some(FileName) ELSE Null,
                                 NoLocals) } :
                /\ engOut' = out
                /\ engLive' = LiveAtExit(out)
    /\ engPc' = "failed"
    /\ UNCHANGED <<engVariant, engImage, engHeight, engOcr>>

-----------------------------------------------------------------------------
(* The LogAnalyzer component: one run of the file input's onchange handler *)
(* against the analyze mutation of the router that returns                 *)
(* processed_image_data.                                                   *)

BATCH_SIZE == 1

CONCURRENT_BATCHES == 3

MaxFiles == 4

EmptyRaster == [rows |-> 2, cols |-> 2, shapes |-> <<>>]

LogRaster == [rows |-> 3, cols |-> 2, shapes |-> << [x |-> 0, y |-> 0, w |-> 2, h |-> 2] >>]

\* an uploaded file: its raster, what the browser's OCR reads as the first
\* "<digits> mm" value (or null), and what the OpenAI call extracts (or null)
SampleFiles ==
    { [img |-> LogRaster,   ocr |-> Some(4), ai |-> Some(4)],
      [img |-> LogRaster,   ocr |-> Null,    ai |-> Some(4)],
      [img |-> EmptyRaster, ocr |-> Some(4), ai |-> Some(4)],
      [img |-> LogRaster,   ocr |-> Some(4), ai |-> Null] }

Uploads == UNION { [1..n -> SampleFiles] : n \in 1..MaxFiles }

\* the browser's extractHeightFromImage: the matched value if 0 < value < 1000
extractHeightFromImage(f) ==
    IF f.ocr # Null /\ f.ocr[1] > 0 /\ f.ocr[1] < 1000 THEN f.ocr ELSE Null

\* the loop of imageRouter.analyze over input.images (pairs <<index, file>>)
RECURSIVE AnalyzeFrom(_, _, _)
AnalyzeFrom(images, j, acc) ==
    IF j > Len(images) THEN [kind |-> "ok", results |-> acc, error |-> Null]
    ELSE LET k == images[j][1]
             f == images[j][2]
         IN  IF f.ai = Null \/ ~AcceptedByOpenAI(f.ai[1])
             THEN [kind |-> "error", results |-> <<>>,
                   error |-> [type |-> "HeightExtraction", file |-> Null]]
             ELSE LET out == analyzeLogSection_part_001(f.img, f.ai[1], k)
                  IN  IF out.kind = "error"
                      THEN [kind |-> "error", results |-> <<>>,
                            error |-> [type |-> out.error[1], file |-> out.errorFile]]
                      ELSE AnalyzeFrom(images, j + 1, Append(acc, out.result))

imageRouter_analyze(images) == AnalyzeFrom(images, 1, <<>>)

NumBatches(fs) == (Len(fs) + BATCH_SIZE - 1) \div BATCH_SIZE

\* batches[b - 1] = allImages.slice((b - 1) * BATCH_SIZE, b * BATCH_SIZE)
BatchOf(fs, b) ==
    LET lo == (b - 1) * BATCH_SIZE + 1
        hi == IF b * BATCH_SIZE < Len(fs) THEN b * BATCH_SIZE ELSE Len(fs)
    IN  [j \in 1..(hi - lo + 1) |-> <<lo + j - 1, fs[lo + j - 1]>>]

\* the batches started by the pass of the outer loop with loop variable i
GroupOf(fs, i) ==
    { b \in 1..NumBatches(fs) : i < b /\ b <= i + CONCURRENT_BATCHES }

RECURSIVE Concat(_, _, _)
Concat(seqs, order, j) ==
    IF j > Len(order) THEN <<>>
    ELSE seqs[order[j]] \o Concat(seqs, order, j + 1)

RECURSIVE Ascending(_)
Ascending(S) ==
    IF S = {} THEN <<>>
    ELSE LET m == SetMin(S) IN <<m>> \o Ascending(S \ {m})

\* (mutation) the batch results taken in the order the promises settled
BatchResultOrder_settled(fs, i) ==
    LET G    == GroupOf(fs, i)
        done == SelectSeq(completed, LAMBDA b : b \in G)
        last == G \ { done[j] : j \in 1..Len(done) }
    IN  done \o Ascending(last)

\* batchResults of Promise.all(batchPromises): one entry per started batch, in
\* the order the promises were pushed
BatchResultOrder(fs, i) == Ascending(GroupOf(fs, i))

FMin(a, b) == IF FLt(b, a) THEN b ELSE a

RunInit ==
    /\ files = <<>>
    /\ isProcessing = FALSE
    /\ results = <<>>
    /\ processedImageUrls = <<>>
    /\ processedIndices = {}
    /\ processingProgress = Num(0)
    /\ imageUrls = <<>>
    /\ allResults = <<>>
    /\ groupStart = 0
    /\ req = <<>>
    /\ reqResult = <<>>
    /\ alerts = <<>>
    /\ completed = <<>>
    /\ pc = "idle"

\* onchange up to "await Promise.all(... FileReader ...)"
OnChange(fs) ==
    /\ pc = "idle"
    /\ Len(fs) > 0
    /\ results' = <<>>
    /\ processedImageUrls' = <<>>
    /\ imageUrls' = [k \in 1..Len(fs) |-> <<"url", k>>]
    /\ files' = fs
    /\ pc' = "reading"
    /\ UNCHANGED <<isProcessing, processedIndices, processingProgress, allResults,
                   groupStart, req, reqResult, alerts, completed>>

\* (mutation) every batch is started at once, with no grouping
StartProcessing_allAtOnce ==
    /\ pc = "reading"
    /\ isProcessing' = TRUE
    /\ processingProgress' = Num(0)
    /\ processedIndices' = {}
    /\ allResults' = <<>>
    /\ groupStart' = 0
    /\ req' = [b \in 1..NumBatches(files) |-> "ocr"]
    /\ reqResult' = [b \in 1..NumBatches(files) |-> <<>>]
    /\ pc' = "await"
    /\ UNCHANGED <<files, results, processedImageUrls, imageUrls, alerts, completed>>

\* the files are read: batches are cut, the processing flags are set and the
\* first pass of the outer loop starts its processImageBatch calls
StartProcessing ==
    /\ pc = "reading"
    /\ isProcessing' = TRUE
    /\ processingProgress' = Num(0)
    /\ processedIndices' = {}
    /\ allResults' = <<>>
    /\ groupStart' = 0
    /\ req' = [b \in 1..NumBatches(files) |->
                 IF b \in GroupOf(files, 0) THEN "ocr" ELSE "notStarted"]
    /\ reqResult' = [b \in 1..NumBatches(files) |-> <<>>]
    /\ pc' = "await"
    /\ UNCHANGED <<files, results, processedImageUrls, imageUrls, alerts, completed>>

\* a failure handling that would start over: the results shown so far are
\* thrown away
GroupFailed_clearing(error) ==
    /\ alerts' = Append(alerts, error)
    /\ isProcessing' = FALSE
    /\ pc' = "finished"
    /\ results' = <<>>
    /\ processedImageUrls' = <<>>
    /\ UNCHANGED <<processedIndices, processingProgress, allResults, groupStart>>

\* the catch block of the outer loop: alert, setIsProcessing(false), return
GroupFailed(error) ==
    /\ alerts' = Append(alerts, error)
    /\ isProcessing' = FALSE
    /\ pc' = "finished"
    /\ UNCHANGED <<results, processedImageUrls, processedIndices,
                   processingProgress, allResults, groupStart>>

\* the try block after "await Promise.all(batchPromises)" and, when the loop
\* goes on, the start of the next pass; rr and rq are the promise values and
\* states as of the settlement that resolved the Promise.all
GroupSucceeded(rr, rq) ==
    \E merged \in { allResults \o Concat(rr, BatchResultOrder(files, groupStart), 1) } :
    LET nb      == NumBatches(files)
        i       == groupStart
        startIdx == i * BATCH_SIZE
        upto    == startIdx + BATCH_SIZE * CONCURRENT_BATCHES
        endIdx  == IF upto < Len(files) THEN upto ELSE Len(files)
        next    == i + CONCURRENT_BATCHES
    IN  /\ allResults' = merged
        /\ results' = merged
        /\ processedImageUrls' =
              [k \in 1..Len(merged) |-> merged[k].processed_image_data]
        /\ processedIndices' = processedIndices \cup (startIdx..(endIdx - 1))
        /\ IF next < nb
           THEN /\ groupStart' = next
                /\ req' = [b \in 1..nb |->
                             IF b \in GroupOf(files, next) THEN "ocr" ELSE rq[b]]
                /\ processingProgress' =
                      IF nb > 1
                      THEN FMin(FMul(Frac(i + CONCURRENT_BATCHES, nb), Num(100)),
                                Num(100))
                      ELSE processingProgress
                /\ pc' = "await"
                /\ UNCHANGED isProcessing
           ELSE /\ groupStart' = next
                /\ req' = rq
                /\ isProcessing' = FALSE
                /\ processingProgress' = Num(100)
                /\ pc' = "finished"
        /\ UNCHANGED alerts

\* a processImageBatch promise rejects; the first rejection of the awaited
\* group rejects the Promise.all and runs the catch block
Reject(b, error) ==
    /\ reqResult' = reqResult
    /\ completed' = Append(completed, b)
    /\ IF pc = "await" /\ b \in GroupOf(files, groupStart)
       THEN /\ GroupFailed(error)
            /\ req' = [req EXCEPT ![b] = "rejected"]
       ELSE /\ req' = [req EXCEPT ![b] = "rejected"]
            /\ UNCHANGED <<results, processedImageUrls, processedIndices,
                           processingProgress, allResults, groupStart, alerts,
                           isProcessing, pc>>

\* a processImageBatch promise fulfils; the last fulfilment of the awaited
\* group resolves the Promise.all and runs the try block
Fulfil(b, value) ==
    \E rr \in { [reqResult EXCEPT ![b] = value] } :
    \E rq \in { [req EXCEPT ![b] = "fulfilled"] } :
        /\ reqResult' = rr
        /\ completed' = Append(completed, b)
        /\ IF /\ pc = "await"
              /\ b \in GroupOf(files, groupStart)
              /\ \A c \in GroupOf(files, groupStart) : rq[c] = "fulfilled"
           THEN GroupSucceeded(rr, rq)
           ELSE /\ req' = rq
                /\ UNCHANGED <<results, processedImageUrls, processedIndices,
                               processingProgress, allResults, groupStart, alerts,
                               isProcessing, pc>>

\* processImageBatch, first await: the heights of the batch's images
OcrDone(b) ==
    /\ b \in DOMAIN req
    /\ req[b] = "ocr"
    /\ LET batch   == BatchOf(files, b)
           missing == { j \in 1..Len(batch) : extractHeightFromImage(batch[j][2]) = Null }
       IN  IF missing # {}
           THEN Reject(b, [type |-> "NoHeightDetected",
                           file |-> Some(batch[SetMin(missing)][1])])
           ELSE /\ req' = [req EXCEPT ![b] = "sent"]
                /\ UNCHANGED <<results, processedImageUrls, processedIndices,
                               processingProgress, allResults, groupStart, alerts,
                               isProcessing, pc, reqResult, completed>>
    /\ UNCHANGED <<files, imageUrls>>

\* processImageBatch, second await: analyzeImagesMutation.mutateAsync settles
ServerReply(b) ==
    /\ b \in DOMAIN req
    /\ req[b] = "sent"
    /\ \E reply \in { imageRouter_analyze(BatchOf(files, b)) } :
          IF reply.kind = "ok"
          THEN Fulfil(b, reply.results)
          ELSE Reject(b, reply.error)
    /\ UNCHANGED <<files, imageUrls>>

Init == RunInit /\ EngineParked /\ OcrParked /\ BinParked /\ RerunParked /\ ReadyParked

Next ==
    \/ \E fs \in Uploads : OnChange(fs) /\ UNCHANGED <<engVars, ocrVars, binVars, rerunVars, readyVars>>
    \/ StartProcessing /\ UNCHANGED <<engVars, ocrVars, binVars, rerunVars, readyVars>>
    \/ \E b \in 1..MaxFiles : OcrDone(b) /\ UNCHANGED <<engVars, ocrVars, binVars, rerunVars, readyVars>>
    \/ \E b \in 1..MaxFiles : ServerReply(b) /\ UNCHANGED <<engVars, ocrVars, binVars, rerunVars, readyVars>>

Spec == Init /\ [][Next]_vars

EngineNext ==
    \/ EngineAnalyze /\ UNCHANGED <<runVars, ocrVars, binVars, rerunVars, readyVars>>
    \/ EngineNoContext /\ UNCHANGED <<runVars, ocrVars, binVars, rerunVars, readyVars>>

EngineSpecInit == RunInit /\ EngineInit /\ OcrParked /\ BinParked /\ RerunParked /\ ReadyParked

EngineSpec == EngineSpecInit /\ [][EngineNext]_vars

-----------------------------------------------------------------------------
(* Properties of the batch run (specification Spec).                       *)

\* image k on its own cannot be analysed: no height is read in the browser,
\* or the analyze mutation fails for it
ImageFails(k) ==
    \/ extractHeightFromImage(files[k]) = Null
    \/ imageRouter_analyze(<< <<k, files[k]>> >>).kind = "error"

HasResult(k) == \E j \in 1..Len(results) : results[j].filename = k

HasFailure(k) == \E a \in 1..Len(alerts) : alerts[a].file = Some(k)

InInputOrder(rs) ==
    \A a, b \in 1..Len(rs) : a < b => rs[a].filename < rs[b].filename

\* C1: batch isolation. When the run has finished, every image that does not
\* fail on its own has exactly one result, the results are in input order, and
\* every failing image has a failure tagged with its filename.
C1_BatchIsolation ==
    pc = "finished" =>
        /\ \A k \in 1..Len(files) :
              ~ImageFails(k) =>
                 Cardinality({ j \in 1..Len(results) : results[j].filename = k }) = 1
        /\ InInputOrder(results)
        /\ \A k \in 1..Len(files) : ImageFails(k) => HasFailure(k)

\* C2: no result is silently dropped. Once isProcessing is false again, every
\* uploaded image is accounted for by a result or by a reported failure, and
\* every result a request delivered is in the result set.
C2_NoResultDropped ==
    (pc = "finished" /\ ~isProcessing) =>
        /\ \A k \in 1..Len(files) : HasResult(k) \/ HasFailure(k)
        /\ \A b \in DOMAIN req :
              req[b] = "fulfilled" =>
                 \A j \in 1..Len(reqResult[b]) : HasResult(reqResult[b][j].filename)

\* C3: output order. At every point of a run, whatever the order in which the
\* concurrent requests settle, the results held by the handler (allResults) and
\* by the component (results) list the images in input order.
C3_OutputOrder == InInputOrder(results) /\ InInputOrder(allResults)

\* two requests whose results are both held settled in the opposite order
C3_Witness ==
    /\ Len(results) >= 2
    /\ \E p, q \in 1..Len(completed) :
          /\ p < q
          /\ completed[p] > completed[q]
          /\ \A b \in {completed[p], completed[q]} :
                req[b] = "fulfilled" /\ HasResult(BatchOf(files, b)[1][1])

-----------------------------------------------------------------------------
(* Properties of one analysis (specification EngineSpec).                  *)

EngineOk == engPc = "done" /\ engOut.kind = "ok"

\* C4: an input whose binarized image has no foreground pixel ends in
\* NoRegionFound; no result is returned for it.
C4_EmptyIsNoRegionFound ==
    (engPc = "done" /\ OnCount(Binarize(engImage)) = 0) =>
        (engOut.kind = "error" /\ engOut.error = Some("NoRegionFound"))

\* C5: a height that makes the scale non-positive or non-finite fails the
\* analysis with InvalidCalibration; no result comes from a scale that is not
\* strictly positive and finite.
C5_InvalidCalibrationRejected ==
    engPc = "done" =>
        /\ engOut.kind = "ok" => IsPositiveFinite(engOut.locals.scale)
        /\ OrElse(engOcr, engHeight) <= 0 =>
              (engOut.kind = "error" /\ engOut.error = Some("InvalidCalibration"))

\* C6: the scale of every result is the calibration height divided by the
\* pixel height of the selected contour's bounding box.
C6_ScaleFromBoundingBox ==
    (EngineOk /\ Len(engImage.shapes) > 0 /\ engOut.locals.heightToUse > 0) =>
        engOut.locals.scale =
            FDiv(Num(engOut.locals.heightToUse), Num(engOut.locals.rect.height))

\* C7: m00 is the number of "on" pixels of the mask and area_mm2 is that count
\* times scale squared.
C7_M00IsPixelCount ==
    (EngineOk /\ engOut.locals.heightToUse > 0) =>
        /\ engOut.locals.m00 = engOut.locals.onCount
        /\ engOut.result.area_mm2 =
              FMul(Num(engOut.locals.onCount),
                   FMul(engOut.locals.scale, engOut.locals.scale))

IsOneRect(img) == Len(img.shapes) = 1

IsOriginRect(img) ==
    IsOneRect(img) /\ img.shapes[1].x = 0 /\ img.shapes[1].y = 0

\* C8: for a filled W x H rectangle at the image origin calibrated to H_mm:
\* scale = H_mm / H, area_mm2 = W * H * scale^2, centroid = (W/2, H/2) * scale.
C8_RectangleAreaCentroid ==
    (EngineOk /\ IsOriginRect(engImage) /\ engOut.locals.heightToUse > 0) =>
        LET W     == engImage.shapes[1].w
            H     == engImage.shapes[1].h
            scale == FDiv(Num(engOut.locals.heightToUse), Num(H))
        IN  /\ engOut.locals.scale = scale
            /\ engOut.result.area_mm2 = FMul(Num(W * H), FMul(scale, scale))
            /\ engOut.result.centroid_x_mm = FMul(Frac(W, 2), scale)
            /\ engOut.result.centroid_y_mm = FMul(Frac(H, 2), scale)

FAbs(a) == IF IsFinite(a) /\ a.n < 0 THEN FNeg(a) ELSE a

\* closed form scale^4 * W * H^3 / 12 and the relative deviation from it
ClosedFormIxx(scale, W, H) ==
    FMul(FMul(FSq(scale), FSq(scale)), Frac(W * H * H * H, 12))

RelativeDeviation(out, W, H) ==
    LET closed == ClosedFormIxx(out.locals.scale, W, H)
    IN  FDiv(FAbs(FSub(out.result.Ixx_mm4, closed)), closed)

\* the same raster with its rectangle h2 pixels high instead
TallerRectangles(img) ==
    LET r == img.shapes[1]
    IN  { [img EXCEPT !.shapes = << [r EXCEPT !.h = h2] >>] :
            h2 \in { h \in (r.h + 1)..img.rows : r.y + h <= img.rows } }

\* C9: for a filled W x H rectangle the Ixx_mm4 of the pixel loop deviates from
\* scale^4 * W * H^3 / 12 by the relative amount 1 / H^2, which is strictly
\* smaller for every taller rectangle of the same width and calibration height
\* and tends to 0.
C9_IxxConverges ==
    (EngineOk /\ IsOneRect(engImage) /\ engOut.locals.heightToUse # 0) =>
        LET W   == engImage.shapes[1].w
            H   == engImage.shapes[1].h
            dev == RelativeDeviation(engOut, W, H)
        IN  /\ FMul(dev, Num(H * H)) = Num(1)
            /\ \A img2 \in TallerRectangles(engImage) :
                  LET out2 == analyzeLogSection(engVariant, img2, engHeight,
                                                FileName, engOcr, "returns")
                  IN  out2.kind = "ok" =>
                         FLt(RelativeDeviation(out2, W, img2.shapes[1].h), dev)

\* an analysed rectangle at least 2 pixels high with a taller one to compare
C9_Witness ==
    /\ EngineOk /\ IsOneRect(engImage) /\ engOut.locals.heightToUse # 0
    /\ engImage.shapes[1].h >= 2
    /\ TallerRectangles(engImage) # {}
    /\ IsPositiveFinite(engOut.result.Ixx_mm4)

\* C10: for a filled rectangle of pixel height H calibrated to H_mm the
\* extreme-fiber distance is H_mm / 2 and section_modulus_mm3 is
\* Ixx_mm4 / (H_mm / 2).
C10_RectangleModulus ==
    (EngineOk /\ IsOneRect(engImage) /\ engOut.locals.heightToUse > 0) =>
        LET half == Frac(engOut.locals.heightToUse, 2)
        IN  /\ engOut.locals.cMm = half
            /\ engOut.result.section_modulus_mm3 = FDiv(engOut.result.Ixx_mm4, half)

\* C11: the extreme-fiber distance of every result is the larger of the two
\* distances from the centroid to the bottom and to the top edge of the
\* selected contour's bounding box, in mm, and section_modulus_mm3 is
\* Ixx_mm4 divided by it.
C11_FiberFromBoundingBox ==
    (EngineOk /\ Len(engImage.shapes) > 0 /\ engOut.locals.heightToUse > 0) =>
        LET rect   == engOut.locals.rect
            scale  == engOut.locals.scale
            bottom == FMul(Num(rect.y + rect.height), scale)
            top    == FMul(Num(rect.y), scale)
            cy     == engOut.result.centroid_y_mm
            c      == FMax(FSub(bottom, cy), FSub(cy, top))
        IN  /\ engOut.locals.cMm = c
            /\ engOut.result.section_modulus_mm3 = FDiv(engOut.result.Ixx_mm4, c)

-----------------------------------------------------------------------------
(* extractHeightFromImage: the recognizer's text, the regular expression   *)
(* /(\d+)\s*mm/i and parseInt, in the three copies of the function.        *)

MaxTokens == 4

DigitChars == <<"0", "1", "2", "3", "4", "5", "6", "7", "8", "9">>

\* \d
IsDigit(c) == \E i \in 1..10 : DigitChars[i] = c

DigitValue(c) == (CHOOSE i \in 1..10 : DigitChars[i] = c) - 1

\* \s
IsSpace(c) == c = " "

\* m under the i flag
IsM(c) == c \in {"m", "M"}

\* the words a recognized text is put together from; two numbers never stand
\* side by side, so every run of digits is one of DigitWords
DigitWords ==
    { <<"0">>, <<"3", "4", "2">>, <<"1", "0", "0", "0">>, <<"3", "4", "2", "0", "0">> }

OtherWords == { <<"m", "m">>, <<"M", "M">>, <<" ">>, <<"x">> }

RECURSIVE Flatten(_)
Flatten(ws) == IF ws = <<>> THEN <<>> ELSE Head(ws) \o Flatten(Tail(ws))

WordSeqs ==
    { w \in UNION { [1..n -> DigitWords \cup OtherWords] : n \in 0..MaxTokens } :
        \A i \in 1..(Len(w) - 1) : ~(w[i] \in DigitWords /\ w[i + 1] \in DigitWords) }

Texts == { Flatten(w) : w \in WordSeqs }

\* greedy \d+ from position q: the first position that is not a digit
RECURSIVE DigitsEnd(_, _)
DigitsEnd(text, q) ==
    IF q <= Len(text) /\ IsDigit(text[q]) THEN DigitsEnd(text, q + 1) ELSE q

\* greedy \s* from position q
RECURSIVE SpacesEnd(_, _)
SpacesEnd(text, q) ==
    IF q <= Len(text) /\ IsSpace(text[q]) THEN SpacesEnd(text, q + 1) ELSE q

\* an attempt of /(\d+)\s*mm/i at position p: the captured digits, or null.
\* Giving back a digit or a blank never helps, since the character that
\* follows is then a digit or a blank and not an m.
MatchAt(text, p) ==
    LET e == DigitsEnd(text, p)
        s == SpacesEnd(text, e)
    IN  IF e > p /\ s + 1 <= Len(text) /\ IsM(text[s]) /\ IsM(text[s + 1])
        THEN Some(SubSeq(text, p, e - 1))
        ELSE Null

\* heightRegex.exec(text) / text.match(heightRegex): the leftmost match
RECURSIVE ExecFrom(_, _)
ExecFrom(text, p) ==
    IF p > Len(text) THEN Null
    ELSE IF MatchAt(text, p) # Null THEN MatchAt(text, p)
    ELSE ExecFrom(text, p + 1)

regexExec(text) == ExecFrom(text, 1)

\* parseInt(digits, 10)
RECURSIVE parseInt(_)
parseInt(digits) ==
    IF digits = <<>> THEN 0
    ELSE parseInt(SubSeq(digits, 1, Len(digits) - 1)) * 10
            + DigitValue(digits[Len(digits)])

OcrVariants == {"LogAnalyzer", "image_ts", "part_002"}

OcrReturned(value, failed) ==
    [kind |-> "returned", value |-> value, recognizerFailed |-> failed]

\* LogAnalyzer.tsx and the router with the default height: the first match,
\* kept only if 0 < height < 1000
extractHeight_checked(text) ==
    LET match == regexExec(text)
    IN  IF match # Null
        THEN LET height == parseInt(match[1])
             IN  IF height > 0 /\ height < 1000 THEN Some(height) ELSE Null
        ELSE Null

\* routers/image.ts: the first match, as parsed
extractHeight_image_ts(text) ==
    LET match == regexExec(text)
    IN  IF match # Null THEN Some(parseInt(match[1])) ELSE Null

\* one call: createWorker / recognize may throw, which the catch block turns
\* into null
extractHeightFromText(variant, text, recognizerFails) ==
    IF recognizerFails THEN OcrReturned(Null, TRUE)
    ELSE IF variant = "image_ts"
         THEN OcrReturned(extractHeight_image_ts(text), FALSE)
         ELSE OcrReturned(extractHeight_checked(text), FALSE)

\* where a call can throw: nowhere, before the worker exists (canvas context,
\* createWorker), or in worker.recognize
OcrFaults == {"none", "createWorker", "recognize"}

\* the worker when the function returns: only LogAnalyzer.tsx calls
\* worker.terminate(), after recognize and inside the try block
WorkerAfter(variant, fault) ==
    IF fault = "createWorker" THEN "none"
    ELSE IF variant = "LogAnalyzer" /\ fault = "none" THEN "terminated"
    ELSE "live"

OcrInit ==
    /\ ocrVariant \in OcrVariants
    /\ ocrText \in Texts
    /\ ocrPc = "call"
    /\ ocrOut = OcrNotCalled
    /\ ocrWorker = "none"

ExtractHeight ==
    /\ ocrPc = "call"
    /\ \E fault \in OcrFaults :
          /\ ocrOut' = extractHeightFromText(ocrVariant, ocrText, fault # "none")
          /\ ocrWorker' = WorkerAfter(ocrVariant, fault)
    /\ ocrPc' = "done"
    /\ UNCHANGED <<ocrVariant, ocrText>>

OcrNext == ExtractHeight /\ UNCHANGED <<engVars, runVars, binVars, rerunVars, readyVars>>

OcrSpecInit == RunInit /\ EngineParked /\ OcrInit /\ BinParked /\ RerunParked /\ ReadyParked

OcrSpec == OcrSpecInit /\ [][OcrNext]_vars

-----------------------------------------------------------------------------
(* Properties of one height extraction (specification OcrSpec).           *)

\* the values of the "<digits> mm" occurrences of a text, in text order
RECURSIVE OccurrencesFrom(_, _)
OccurrencesFrom(text, p) ==
    IF p > Len(text) THEN <<>>
    ELSE IF IsDigit(text[p])
         THEN LET e == DigitsEnd(text, p)
              IN  IF MatchAt(text, p) # Null
                  THEN <<parseInt(MatchAt(text, p)[1])>> \o OccurrencesFrom(text, e)
                  ELSE OccurrencesFrom(text, e)
         ELSE OccurrencesFrom(text, p + 1)

Occurrences(text) == OccurrencesFrom(text, 1)

InRange(v) == v > 0 /\ v < 1000

\* C12: the height returned for a text is null or an integer strictly between
\* 0 and 1000; a text with no "<digits> mm" occurrence, or with none in that
\* range, yields null.
C12_HeightInRangeOrNull ==
    ocrPc = "done" =>
        /\ ocrOut.kind = "returned"
        /\ ocrOut.value # Null => InRange(ocrOut.value[1])
        /\ (\A i \in 1..Len(Occurrences(ocrText)) : ~InRange(Occurrences(ocrText)[i]))
              => ocrOut.value = Null

\* the first occurrence, in text order, whose value is in range
RECURSIVE FirstInRange(_)
FirstInRange(values) ==
    IF values = <<>> THEN Null
    ELSE IF InRange(Head(values)) THEN Some(Head(values))
    ELSE FirstInRange(Tail(values))

\* C13: when the recognizer delivered a text, the detected height is the first
\* "<integer> mm" occurrence whose value lies strictly between 0 and 1000;
\* occurrences out of range are passed over.
C13_FirstInRangeOccurrence ==
    (ocrPc = "done" /\ ~ocrOut.recognizerFailed) =>
        ocrOut.value = FirstInRange(Occurrences(ocrText))

-----------------------------------------------------------------------------
(* Further properties of the batch run (specification Spec).               *)

\* C14: a missing height does not by itself make the processing of an image
\* fail: no error is reported for it, and a request is rejected only if the
\* analysis of its images fails.
C14_MissingHeightIsNoFailure ==
    /\ \A a \in 1..Len(alerts) : alerts[a].type # "NoHeightDetected"
    /\ \A b \in DOMAIN req :
          req[b] = "rejected" => imageRouter_analyze(BatchOf(files, b)).kind = "error"

-----------------------------------------------------------------------------
(* Further properties of one analysis (specification EngineSpec).          *)

\* what the OCR pass of a copy of the engine can deliver for an image
OcrValuesOf(variant) ==
    IF ~HasOwnOcr(variant) THEN {Null}
    ELSE IF CheckedOcr(variant) THEN { v \in ServerOcrValues : v = Null \/ InRange(v[1]) }
    ELSE ServerOcrValues

NumericFields(out) ==
    IF out.kind = "ok"
    THEN <<out.result.area_mm2, out.result.centroid_x_mm, out.result.centroid_y_mm,
           out.result.Ixx_mm4, out.result.section_modulus_mm3>>
    ELSE <<>>

\* C15: determinism. A second run on the same raster with the same height
\* returns the same numeric fields as the first, whatever the OCR pass
\* delivers in the second run.
C15_SameInputSameNumbers ==
    (engPc = "done" /\ Len(engImage.shapes) > 0) =>
        \A ocr2 \in OcrValuesOf(engVariant) :
            NumericFields(analyzeLogSection(engVariant, engImage, engHeight,
                                            FileName, ocr2, "returns"))
                = NumericFields(engOut)

\* C16: the height the scale is computed from is the height passed into
\* analyzeLogSection; no OCR value and no default takes its place.
C16_SuppliedHeightIsUsed ==
    engPc = "done" => engOut.locals.heightToUse = engHeight

\* the height the scale was computed from came from a detection: the OCR pass
\* of the copy, or, for the router that is handed the height read by
\* extractHeightWithOpenAI, that reading
UsedDetectedHeight ==
    CASE engVariant = "part_001" -> TRUE
      [] HasOwnOcr(engVariant)   -> engOcr # Null /\ engOcr[1] = engOut.locals.heightToUse
      [] OTHER                   -> FALSE

\* C17: in every result detected_height_mm is null exactly when the height
\* used for the scale was not a detected one, and when it is not null it is
\* the height the scale was computed from.
C17_DetectedHeightReported ==
    EngineOk =>
        /\ (engOut.result.detected_height_mm = Null) <=> ~UsedDetectedHeight
        /\ engOut.result.detected_height_mm # Null =>
              engOut.result.detected_height_mm[1] = engOut.locals.heightToUse

-----------------------------------------------------------------------------
(* The binarizer on its own: cv.threshold with Otsu's threshold followed   *)
(* by cv.bitwise_not, on a page of the two levels 0 and 255 in either      *)
(* polarity.                                                               *)

Inks == {"dark", "light"}

\* the grayscale raster of a page whose shapes are drawn in the given ink
GrayWithInk(img, ink) ==
    LET shapeLevel == IF ink = "dark" THEN 0 ELSE 255
    IN  [p \in Pixels(img) |->
            IF \E i \in 1..Len(img.shapes) : InRect(p, img.shapes[i])
            THEN shapeLevel ELSE 255 - shapeLevel]

\* "Threshold the image": cv.threshold, then cv.bitwise_not in place
BinarizeGray(gray) == BitwiseNot(Threshold(gray))

BinInit ==
    /\ binImage \in Rasters
    /\ binInk \in Inks
    /\ binPc = "call"
    /\ binOut = Null

BinarizeStep ==
    /\ binPc = "call"
    /\ binOut' = BinarizeGray(GrayWithInk(binImage, binInk))
    /\ binPc' = "done"
    /\ UNCHANGED <<binImage, binInk>>

BinNext == BinarizeStep /\ UNCHANGED <<engVars, runVars, ocrVars, rerunVars, readyVars>>

BinSpecInit == RunInit /\ EngineParked /\ OcrParked /\ BinInit /\ RerunParked /\ ReadyParked

BinSpec == BinSpecInit /\ [][BinNext]_vars

-----------------------------------------------------------------------------
(* Properties of the binarizer (specification BinSpec).                    *)

\* one shape that leaves some of the page uncovered
IsTwoTone(img) ==
    /\ Len(img.shapes) = 1
    /\ img.shapes[1].w * img.shapes[1].h < img.rows * img.cols

\* C18: polarity normalisation. For one shape on a contrasting page, dark on
\* light or light on dark, the binarizer output has the shape's pixels on
\* (255) and the page's pixels off (0).
C18_ShapeIsOn ==
    (binPc = "done" /\ IsTwoTone(binImage)) =>
        \A p \in Pixels(binImage) :
            binOut[p] = (IF InRect(p, binImage.shapes[1]) THEN 255 ELSE 0)

-----------------------------------------------------------------------------
(* Resources of one analysis (specification EngineSpec).                   *)

\* C19: when analyzeLogSection has exited, by return or by any throw, every
\* OpenCV object it created has been deleted.
C19_BuffersReleased ==
    engPc \in {"done", "failed"} => engLive = {}

-----------------------------------------------------------------------------
(* Frame of the failure handling (specification Spec).                     *)

\* C20: the step that abandons a run after a failure, and every step after
\* it, leaves results and processedImageUrls exactly as they were.
C20_FailureKeepsResults ==
    [][ (pc' = "finished" /\ Len(alerts') > 0) =>
            (results' = results /\ processedImageUrls' = processedImageUrls) ]_vars

\* a run abandoned in its second group, with the first group's results shown
C20_Witness ==
    /\ pc = "finished"
    /\ Len(alerts) > 0
    /\ Len(results) = CONCURRENT_BATCHES * BATCH_SIZE
    /\ Len(processedImageUrls) = Len(results)
    /\ Len(files) > Len(results)

-----------------------------------------------------------------------------
(* Contour selection and the guards of one analysis (specification         *)
(* EngineSpec).                                                            *)

AreasOf(img) ==
    [i \in 1..Len(findContours(img)) |-> contourArea(findContours(img)[i])]

HasPositiveArea(img) ==
    \E i \in 1..Len(AreasOf(img)) : FLt(Num(0), AreasOf(img)[i])

\* C21: when some contour has a positive area, the selected contour has the
\* largest area of all contours, and every contour enumerated before it has a
\* strictly smaller area (of several largest ones the first is selected).
C21_LargestFirstSelected ==
    (engPc = "done" /\ HasPositiveArea(engImage)) =>
        LET areas == AreasOf(engImage)
            sel   == engOut.locals.largestContourIndex + 1
        IN  /\ sel \in 1..Len(areas)
            /\ engOut.locals.maxArea = areas[sel]
            /\ \A j \in 1..Len(areas) : ~FLt(areas[sel], areas[j])
            /\ \A j \in 1..(sel - 1) : FLt(areas[j], areas[sel])

\* two contours share the largest area, which is positive
C21_Witness ==
    /\ engPc = "done"
    /\ HasPositiveArea(engImage)
    /\ Len(AreasOf(engImage)) = 2
    /\ AreasOf(engImage)[1] = AreasOf(engImage)[2]
    /\ engOut.locals.largestContourIndex = 0


\* C22: NoRegionFound is raised only for an empty foreground: an image whose
\* binarized form has at least one foreground pixel (a single pixel and a
\* one-pixel-wide line included) gets a contour selected and is analysed.
C22_RegionFoundWhenInk ==
    (engPc = "done" /\ OnCount(Binarize(engImage)) > 0) =>
        ~(engOut.kind = "error" /\ engOut.error = Some("NoRegionFound"))


\* C23: in every analysis that passed the "no valid contour" check (maximum
\* contour area above 0) with a positive finite calibration height, the
\* rebuilt mask has m00 > 0 and the extreme-fiber distance is finite and
\* above 0, so neither the centroid nor the section modulus divides by zero.
C23_DivisorsPositive ==
    (EngineOk /\ FLt(Num(0), engOut.locals.maxArea)
              /\ engOut.locals.heightToUse > 0) =>
        /\ engOut.locals.m00 > 0
        /\ IsPositiveFinite(engOut.locals.cMm)
        /\ IsFinite(engOut.locals.centroidY)
        /\ IsFinite(engOut.result.section_modulus_mm3)

C23_Witness ==
    /\ EngineOk /\ FLt(Num(0), engOut.locals.maxArea)
    /\ engOut.locals.heightToUse > 0
    /\ engVariant = "part_001"
    /\ engOut.locals.rect.width = 2 /\ engOut.locals.rect.height = 2
    /\ engOut.locals.m00 = 4 * 255

-----------------------------------------------------------------------------
(* Properties of the OCR worker (specification OcrSpec).                   *)

\* C30: every OCR worker created by extractHeightFromImage has been terminated
\* by the time the function returns, when recognition succeeds and when it
\* throws and the function returns null.
C30_WorkerTerminated ==
    ocrPc = "done" => ocrWorker # "live"

-----------------------------------------------------------------------------
(* The component across several uses of "Run Analysis": every file         *)
(* selection starts its own invocation of the onchange handler, and all of *)
(* them write the same component state. A group of requests is taken as a  *)
(* whole here: its Promise.all resolves or rejects.                        *)

MaxRuns == 2

\* allImages of invocation r: n files, named by invocation and position
RunFiles(r, n) == [k \in 1..n |-> <<r, k>>]

\* the result the server returns for one file
ResultFor(f) == [filename |-> f, processed_image_data |-> <<"annotated", f>>]

\* the sizes of a selection that are tried: one file (one batch), two files
\* (one group) and the largest upload (more than one group)
RunSizes == {1, 2, MaxFiles}

RerunInit == runs = <<>>

\* the button is clicked (it is disabled while isProcessing is true) and the
\* file dialog delivers n files: onchange up to the await of the file readers
SelectFiles(n) ==
    /\ ~isProcessing
    /\ Len(runs) < MaxRuns
    /\ results' = <<>>
    /\ processedImageUrls' = <<>>
    /\ imageUrls' = [k \in 1..n |-> <<"url", Len(runs) + 1, k>>]
    /\ runs' = Append(runs, [pc |-> "reading",
                             allImages |-> RunFiles(Len(runs) + 1, n),
                             i |-> 0, allResults |-> <<>>])
    /\ UNCHANGED <<isProcessing, processedIndices, processingProgress>>

\* invocation r: the files are read, the flags are set, the first group starts
FilesRead(r) ==
    /\ r \in DOMAIN runs
    /\ runs[r].pc = "reading"
    /\ isProcessing' = TRUE
    /\ processingProgress' = Num(0)
    /\ processedIndices' = {}
    /\ runs' = [runs EXCEPT ![r].pc = "await"]
    /\ UNCHANGED <<results, processedImageUrls, imageUrls>>

\* invocation r: the awaited group resolves; the try block and the next pass
\* of the loop, or the two statements after the loop
GroupResolved(r) ==
    /\ r \in DOMAIN runs
    /\ runs[r].pc = "await"
    /\ LET fs       == runs[r].allImages
           nb       == NumBatches(fs)
           i        == runs[r].i
           startIdx == i * BATCH_SIZE
           upto     == startIdx + BATCH_SIZE * CONCURRENT_BATCHES
           endIdx   == IF upto < Len(fs) THEN upto ELSE Len(fs)
           merged   == runs[r].allResults \o
                          [k \in 1..(endIdx - startIdx) |-> ResultFor(fs[startIdx + k])]
           next     == i + CONCURRENT_BATCHES
       IN  /\ results' = merged
           /\ processedImageUrls' =
                 [k \in 1..Len(merged) |-> merged[k].processed_image_data]
           /\ processedIndices' = processedIndices \cup (startIdx..(endIdx - 1))
           /\ IF next < nb
              THEN /\ runs' = [runs EXCEPT ![r].i = next, ![r].allResults = merged]
                   /\ IF nb > 1
                      THEN \E ratio \in { Frac(i + CONCURRENT_BATCHES, nb) } :
                           \E progress \in { FMul(ratio, Num(100)) } :
                               processingProgress' = FMin(progress, Num(100))
                      ELSE UNCHANGED processingProgress
                   /\ UNCHANGED isProcessing
              ELSE /\ runs' = [runs EXCEPT ![r].i = next, ![r].allResults = merged,
                                           ![r].pc = "done"]
                   /\ isProcessing' = FALSE
                   /\ processingProgress' = Num(100)
    /\ UNCHANGED imageUrls

\* (mutation) a catch block that returns without clearing the flag
GroupRejected_stuck(r) ==
    /\ r \in DOMAIN runs
    /\ runs[r].pc = "await"
    /\ runs' = [runs EXCEPT ![r].pc = "failed"]
    /\ UNCHANGED <<results, processedImageUrls, processedIndices,
                   processingProgress, imageUrls, isProcessing>>

\* invocation r: a request of the awaited group rejects; the catch block
GroupRejected(r) ==
    /\ r \in DOMAIN runs
    /\ runs[r].pc = "await"
    /\ isProcessing' = FALSE
    /\ runs' = [runs EXCEPT ![r].pc = "failed"]
    /\ UNCHANGED <<results, processedImageUrls, processedIndices,
                   processingProgress, imageUrls>>

RerunRest ==
    UNCHANGED <<files, allResults, groupStart, req, reqResult, alerts, completed,
                pc, engVars, ocrVars, binVars, readyVars>>

RerunNext ==
    \/ \E n \in RunSizes : SelectFiles(n) /\ RerunRest
    \/ \E r \in 1..MaxRuns : FilesRead(r) /\ RerunRest
    \/ \E r \in 1..MaxRuns : GroupResolved(r) /\ RerunRest
    \/ \E r \in 1..MaxRuns : GroupRejected(r) /\ RerunRest

RerunSpecInit ==
    RunInit /\ EngineParked /\ OcrParked /\ BinParked /\ RerunInit /\ ReadyParked

RerunSpec == RerunSpecInit /\ [][RerunNext]_vars

\* the invocations that have started and not finished
ActiveRuns == { r \in DOMAIN runs : runs[r].pc \in {"reading", "await"} }

\* C24: at most one analysis run is active at a time: from the moment a file
\* selection starts being handled until that run finishes, no second run of
\* the handler starts.
C24_OneRunAtATime == Cardinality(ActiveRuns) <= 1

-----------------------------------------------------------------------------
(* The component under fairness: the file readers of every invocation      *)
(* finish, and every awaited group settles (each Tesseract call returns    *)
(* and each analyze mutation is answered or fails).                        *)

FilesAreRead == \E r \in 1..MaxRuns : FilesRead(r) /\ RerunRest

GroupsSettle ==
    \E r \in 1..MaxRuns : (GroupResolved(r) \/ GroupRejected(r)) /\ RerunRest

RerunLiveSpec == RerunSpec /\ WF_vars(FilesAreRead) /\ WF_vars(GroupsSettle)

Awaiting(r) == r \in DOMAIN runs /\ runs[r].pc = "await"

Ended(r) == r \in DOMAIN runs /\ runs[r].pc \in {"done", "failed"}

\* C25: every run that sets isProcessing to true eventually sets it back to
\* false, whether all groups succeed or a request of some group fails: a run
\* that awaits its requests ends, the step that ends it leaves isProcessing
\* false, and the component does not stay in the processing state.
C25_ProcessingEnds ==
    /\ \A r \in 1..MaxRuns : Awaiting(r) ~> Ended(r)
    /\ [][\A r \in 1..MaxRuns : (Awaiting(r) /\ Ended(r)') => ~isProcessing']_vars
    /\ isProcessing ~> ~isProcessing

\* a run that failed in its second group has cleared the flag
C25_Witness ==
    /\ Len(runs) = 1
    /\ runs[1].pc = "failed" /\ runs[1].i > 0
    /\ ~isProcessing

-----------------------------------------------------------------------------
(* Properties of the component state while a run is under way              *)
(* (specification RerunSpec).                                              *)

\* the file shown in slot k of the gallery (imageUrls[k - 1] in the code)
Uploaded(k) == <<imageUrls[k][2], imageUrls[k][3]>>

\* C26: result/image alignment. In every state of a run, results[k] and
\* processedImageUrls[k] belong to the k-th uploaded image, and
\* processedIndices is exactly {0, ..., results.length - 1}.
C26_ResultsAligned ==
    ActiveRuns # {} =>
        /\ Len(results) <= Len(imageUrls)
        /\ Len(processedImageUrls) = Len(results)
        /\ \A k \in 1..Len(results) :
              /\ results[k].filename = Uploaded(k)
              /\ processedImageUrls[k] = <<"annotated", Uploaded(k)>>
        /\ processedIndices = 0..(Len(results) - 1)


\* C27: within one run processingProgress lies in [0, 100], never decreases
\* after the run has reset it to 0, and is 100 when the run has finished with
\* every group successful, for every number of uploaded images.
C27_ProgressMonotone ==
    /\ [](~FLt(processingProgress, Num(0)) /\ ~FLt(Num(100), processingProgress))
    /\ [][\A r \in 1..MaxRuns :
            Awaiting(r) => ~FLt(processingProgress', processingProgress)]_vars
    /\ [][\A r \in 1..MaxRuns :
            (Awaiting(r) /\ runs'[r].pc = "done") =>
                processingProgress' = Num(100)]_vars

-----------------------------------------------------------------------------
(* Concurrency of one run (specification Spec).                            *)

\* the processImageBatch calls of the run that have not settled
InFlight == { b \in DOMAIN req : req[b] \in {"ocr", "sent"} }

\* the pass of the outer loop that starts batch b (0 for the first)
PassOf(b) == (b - 1) \div CONCURRENT_BATCHES

-----------------------------------------------------------------------------
(* The readiness barrier of the router module: the flag opencvReady, the   *)
(* callback that sets it, and calls of waitForOpenCV by the mutation and   *)
(* by analyzeLogSection.                                                    *)

MaxCalls == 3

NotWaiting == [st |-> "notCalled", timer |-> "none"]

\* the module is loaded: "let opencvReady = false" and no call yet
ReadyInit ==
    /\ opencvReady = FALSE
    /\ waiters = [c \in 1..MaxCalls |-> NotWaiting]

\* cv.onRuntimeInitialized: the runtime has finished initialising
OnRuntimeInitialized ==
    /\ ~opencvReady
    /\ opencvReady' = TRUE
    /\ UNCHANGED waiters

\* call c of waitForOpenCV: the promise executor
waitForOpenCV(c) ==
    /\ waiters[c].st = "notCalled"
    /\ waiters' = [waiters EXCEPT ![c] =
                      IF opencvReady
                      THEN [st |-> "resolved", timer |-> "none"]
                      ELSE [st |-> "pending", timer |-> "armed"]]
    /\ UNCHANGED opencvReady

\* (mutation) the interval callback resolves and leaves the timer running
CheckInterval_noClear(c) ==
    /\ waiters[c].timer = "armed"
    /\ waiters' = [waiters EXCEPT ![c] =
                      IF opencvReady
                      THEN [st |-> "resolved", timer |-> "armed"]
                      ELSE @]
    /\ UNCHANGED opencvReady

\* the callback of call c's setInterval, every 100 ms
CheckInterval(c) ==
    /\ waiters[c].timer = "armed"
    /\ waiters' = [waiters EXCEPT ![c] =
                      IF opencvReady
                      THEN [st |-> "resolved", timer |-> "cleared"]
                      ELSE @]
    /\ UNCHANGED opencvReady

\* the caller of call c resumes after "await waitForOpenCV()" and goes on to
\* its OpenCV steps
Proceed(c) ==
    /\ waiters[c].st = "resolved"
    /\ waiters' = [waiters EXCEPT ![c].st = "analysing"]
    /\ UNCHANGED opencvReady

ReadyRest == UNCHANGED <<engVars, runVars, ocrVars, binVars, rerunVars>>

TimerFires(c) == CheckInterval(c) /\ ReadyRest

ReadyNext ==
    \/ OnRuntimeInitialized /\ ReadyRest
    \/ \E c \in 1..MaxCalls : waitForOpenCV(c) /\ ReadyRest
    \/ \E c \in 1..MaxCalls : TimerFires(c)
    \/ \E c \in 1..MaxCalls : Proceed(c) /\ ReadyRest

ReadySpecInit ==
    RunInit /\ EngineParked /\ OcrParked /\ BinParked /\ RerunParked /\ ReadyInit

\* an armed interval timer keeps firing
ReadySpec ==
    /\ ReadySpecInit /\ [][ReadyNext]_vars
    /\ \A c \in 1..MaxCalls : WF_vars(TimerFires(c))

Resolved(c) == waiters[c].st \in {"resolved", "analysing"}

\* C29: once the runtime has finished initialising, every pending call of
\* waitForOpenCV eventually resolves and every later call resolves at once;
\* the polling timer of a call is cleared when the call resolves; and no
\* caller goes on to its analysis steps before opencvReady is true.
C29_ReadinessBarrier ==
    /\ \A c \in 1..MaxCalls :
          (opencvReady /\ waiters[c].st = "pending") ~> Resolved(c)
    /\ [][\A c \in 1..MaxCalls :
            (opencvReady /\ waiters[c].st = "notCalled"
                         /\ waiters'[c].st # "notCalled") => Resolved(c)']_vars
    /\ [](\A c \in 1..MaxCalls :
            /\ Resolved(c) => waiters[c].timer # "armed"
            /\ waiters[c].st = "analysing" => opencvReady)

\* one call waited on its timer and went on, another came after the flag was
\* set and resolved without a timer
C29_Witness ==
    /\ opencvReady
    /\ \E c, d \in 1..MaxCalls :
          /\ waiters[c] = [st |-> "analysing", timer |-> "cleared"]
          /\ waiters[d] = [st |-> "resolved", timer |-> "none"]

====
